---- MODULE Spec2Model ----
(***************************************************************************)
(* Model of awscli/customizations/lightsail: the command-table injector,   *)
(* the argument augmenter of get-instance-access-details, the             *)
(* --private-key argument (PrivateKeyArgument) and its after-call          *)
(* decryption handler.                                                     *)
(*                                                                         *)
(* Strings are sequences of tokens, bytes are the digits 0..7 of a         *)
(* scaled-down byte (three bits instead of eight), and RSA runs on moduli  *)
(* of six such bytes, so that padding, base64 and UTF-8 are computed       *)
(* rather than assumed.                                                    *)
(***************************************************************************)
EXTENDS Integers, Sequences, FiniteSets, TLC

\* ------------------------------------------------------------------------
\* Python values: None, str, bytes and dict (nested mappings).
\* ------------------------------------------------------------------------
None == [t |-> "none", v |-> <<>>]

Str(s) == [t |-> "str", v |-> s]

Obj(f) == [t |-> "obj", v |-> f]

EmptyDict == [k \in {} |-> None]

\* Python truth value of a None / str / dict value ("if value:", "if not value:")
Truthy(x) ==
    CASE x.t = "none" -> FALSE
      [] x.t = "str"  -> Len(x.v) > 0
      [] x.t = "obj"  -> DOMAIN x.v # {}
      [] OTHER        -> TRUE

\* ------------------------------------------------------------------------
\* Paths: sequences of tokens.  "/" is the separator, "~" the user-home
\* shorthand, a token in DOMAIN environ a variable reference.
\* ------------------------------------------------------------------------
RECURSIVE Flatten(_)
Flatten(ss) == IF ss = <<>> THEN <<>> ELSE Head(ss) \o Flatten(Tail(ss))

\* os.path.expandvars: every reference to a variable that is set is replaced
\* by its value (the value is not rescanned); the others are left as they are.
expandvars(path, environ) ==
    Flatten([i \in 1..Len(path) |->
        IF path[i] \in DOMAIN environ THEN environ[path[i]] ELSE <<path[i]>>])

RECURSIVE rstrip(_)
rstrip(s) ==
    IF s # <<>> /\ s[Len(s)] = "/" THEN rstrip(SubSeq(s, 1, Len(s) - 1)) ELSE s

\* The password database consulted for "~user" (and for "~" without HOME).
Passwd == [u \in {<<"~", "root">>} |-> <<"/", "root">>]

CurrentUser == <<"~", "root">>

\* os.path.expanduser: a path that starts with "~" has the part before its
\* first "/" replaced by a home directory: for "~" alone HOME, or without
\* HOME the current user's entry of the password database; for "~user" that
\* user's entry, and an unknown user leaves the path unchanged.
expanduser(path, environ) ==
    IF path = <<>> \/ path[1] # "~" THEN path
    ELSE LET seps == {j \in 2..Len(path) : path[j] = "/"}
             i    == IF seps = {} THEN Len(path) + 1
                     ELSE CHOOSE j \in seps : \A m \in seps : j <= m
             name == SubSeq(path, 1, i - 1)
             rest == SubSeq(path, i, Len(path))
             known == i = 2 \/ name \in DOMAIN Passwd
             userhome == IF i > 2 THEN Passwd[name]
                         ELSE IF "$HOME" \in DOMAIN environ THEN environ["$HOME"]
                         ELSE Passwd[CurrentUser]
             res  == rstrip(userhome) \o rest
         IN  IF ~known THEN path
             ELSE IF res = <<>> THEN <<"/">> ELSE res

\* The file system resolves a path string to a file: runs of "/" count once.
RECURSIVE Resolve(_)
Resolve(path) ==
    IF Len(path) < 2 THEN path
    ELSE IF path[1] = "/" /\ path[2] = "/" THEN Resolve(Tail(path))
    ELSE <<path[1]>> \o Resolve(Tail(path))

\* File contents: a PEM private key (possibly passphrase-protected) or
\* bytes that are no PEM key at all.
NoKey == [alg |-> "none", n |-> 0, e |-> 0, d |-> 0]

Pem(key, encrypted) == [fmt |-> "pem", encrypted |-> encrypted, key |-> key]

Junk == [fmt |-> "junk", encrypted |-> FALSE, key |-> NoKey]

File(data, readable) == [kind |-> "file", readable |-> readable, data |-> data]

Directory == [kind |-> "dir", readable |-> TRUE, data |-> Junk]

NoEntry == [kind |-> "missing", readable |-> FALSE, data |-> Junk]

Stat(fs, path) ==
    IF Resolve(path) \in DOMAIN fs THEN fs[Resolve(path)] ELSE NoEntry

\* os.path.isfile: an existing regular file
isfile(fs, path) == Stat(fs, path).kind = "file"

\* ------------------------------------------------------------------------
\* Bytes, results of calls that may raise, and the codecs.
\* ------------------------------------------------------------------------
Byte == 0..7

ByteBase == Cardinality(Byte)

Bytes(bs) == [t |-> "bytes", v |-> bs]

\* A call returns a value or raises the named exception.
Ok(x) == [ok |-> TRUE, v |-> x, exc |-> "none"]

Raise(e) == [ok |-> FALSE, v |-> None, exc |-> e]

\* F applied to the value of x, which is computed once.
WithValue(x, F(_)) == CHOOSE r \in {F(v) : v \in {x}} : TRUE

RECURSIVE Pow(_, _)
Pow(b, k) == IF k = 0 THEN 1 ELSE b * Pow(b, k - 1)

\* big-endian bytes <-> integer
RECURSIVE OS2IPFrom(_, _)
OS2IPFrom(bs, acc) ==
    IF bs = <<>> THEN acc ELSE OS2IPFrom(Tail(bs), (acc * ByteBase) + Head(bs))

OS2IP(bs) == OS2IPFrom(bs, 0)

I2OSP(x, k) ==
    WithValue(x, LAMBDA v : [i \in 1..k |-> (v \div Pow(ByteBase, k - i)) % ByteBase])

RECURSIVE ModExp(_, _, _)
ModExp(b, e, n) ==
    IF e = 0 THEN 1 % n
    ELSE WithValue(ModExp(b, e \div 2, n),
             LAMBDA h : IF e % 2 = 1 THEN (((h * h) % n) * (b % n)) % n
                        ELSE (h * h) % n)

\* base64 with the alphabet scaled to two bits a character: two bytes make
\* three characters, and a single trailing byte makes two characters and "=".
B64Alphabet == <<"A", "B", "C", "D">>

B64Val == [c \in {"A", "B", "C", "D"} |->
              CHOOSE i \in 0..3 : B64Alphabet[i + 1] = c]

NonAscii == {"w", "x", "y", "z"}

RECURSIVE b64encode(_)
b64encode(bs) ==
    IF bs = <<>> THEN <<>>
    ELSE IF Len(bs) = 1
         THEN <<B64Alphabet[(bs[1] \div 2) + 1],
                B64Alphabet[((bs[1] % 2) * 2) + 1], "=">>
    ELSE <<B64Alphabet[(bs[1] \div 2) + 1],
           B64Alphabet[((bs[1] % 2) * 2) + (bs[2] \div 4) + 1],
           B64Alphabet[(bs[2] % 4) + 1]>> \o b64encode(Tail(Tail(bs)))

\* binascii.a2b_base64, not strict: characters outside the alphabet are
\* skipped, "=" ends the data where it completes a group, and data that ends
\* inside a group is an error ("Incorrect padding").
RECURSIVE a2b_base64(_, _, _)
a2b_base64(s, quad, out) ==
    IF s = <<>> THEN (IF quad = <<>> THEN Ok(Bytes(out)) ELSE Raise("binascii.Error"))
    ELSE LET c == Head(s) IN
         IF c \in DOMAIN B64Val
         THEN LET q == Append(quad, B64Val[c]) IN
              IF Len(q) = 3
              THEN a2b_base64(Tail(s), <<>>,
                       out \o <<(q[1] * 2) + (q[2] \div 2), ((q[2] % 2) * 4) + q[3]>>)
              ELSE a2b_base64(Tail(s), q, out)
         ELSE IF c = "=" /\ Len(quad) = 2
         THEN Ok(Bytes(out \o <<(quad[1] * 2) + (quad[2] \div 2)>>))
         ELSE a2b_base64(Tail(s), quad, out)

\* base64.b64decode(value): a str is first encoded as ASCII
b64decode(value) ==
    IF value.t = "bytes" THEN a2b_base64(value.v, <<>>, <<>>)
    ELSE IF value.t # "str" THEN Raise("TypeError")
    ELSE IF \E i \in 1..Len(value.v) : value.v[i] \in NonAscii THEN Raise("ValueError")
    ELSE a2b_base64(value.v, <<>>, <<>>)

\* UTF-8 scaled to three-bit bytes: 0xx is a one-byte character, 11x then
\* 10x a two-byte character; anything else does not decode.
Ascii == <<"a", "b", "c", "d">>

Wide == <<"w", "x", "y", "z">>

RECURSIVE utf8_decode(_)
utf8_decode(bs) ==
    IF bs = <<>> THEN Ok(Str(<<>>))
    ELSE IF bs[1] < 4
         THEN LET r == utf8_decode(Tail(bs)) IN
              IF r.ok THEN Ok(Str(<<Ascii[bs[1] + 1]>> \o r.v.v)) ELSE r
    ELSE IF bs[1] >= 6 /\ Len(bs) >= 2 /\ bs[2] \in {4, 5}
         THEN LET r == utf8_decode(Tail(Tail(bs))) IN
              IF r.ok THEN Ok(Str(<<Wide[(2 * (bs[1] - 6)) + (bs[2] - 4) + 1]>> \o r.v.v))
              ELSE r
    ELSE Raise("UnicodeDecodeError")

RECURSIVE utf8_encode(_)
utf8_encode(s) ==
    IF s = <<>> THEN <<>>
    ELSE (IF \E i \in 1..4 : Ascii[i] = Head(s)
          THEN <<(CHOOSE i \in 1..4 : Ascii[i] = Head(s)) - 1>>
          ELSE LET j == (CHOOSE i \in 1..4 : Wide[i] = Head(s)) - 1
               IN  <<6 + (j \div 2), 4 + (j % 2)>>)
         \o utf8_encode(Tail(s))

\* ------------------------------------------------------------------------
\* RSA with PKCS#1 v1.5 encryption padding, on moduli of six bytes.
\* ------------------------------------------------------------------------
RsaKey(n, e, d) == [alg |-> "rsa", n |-> n, e |-> e, d |-> d]

KeyPairs == <<RsaKey(34571, 7, 19543), RsaKey(38021, 5, 15053)>>

EcKey == [alg |-> "ec", n |-> 0, e |-> 0, d |-> 0]

\* the key size in bytes
key_size(key) == CHOOSE k \in 1..8 :
    /\ Pow(ByteBase, k) > key.n
    /\ \A j \in 1..(k - 1) : Pow(ByteBase, j) <= key.n

\* PKCS1v15(): block type 2, then at least minpad non-zero padding bytes
\* (eight for real byte sizes), then a zero byte, then the message.
PKCS1v15 == [type |-> 2, minpad |-> 1]

\* The encryption done by the service: EM = 00 02 PS 00 M, C = EM^e mod n.
rsa_encrypt(key, m, ps) ==
    I2OSP(ModExp(OS2IP(<<0, PKCS1v15.type>> \o ps \o <<0>> \o m), key.e, key.n),
          key_size(key))

\* private_key.decrypt(value, PKCS1v15())
rsa_decrypt(key, value, padding) ==
    IF key.alg # "rsa" THEN Raise("AttributeError")
    ELSE IF value.t # "bytes" THEN Raise("TypeError")
    ELSE IF Len(value.v) # key_size(key) THEN Raise("ValueError")
    ELSE IF OS2IP(value.v) >= key.n THEN Raise("ValueError")
    ELSE WithValue(I2OSP(ModExp(OS2IP(value.v), key.d, key.n), key_size(key)),
             LAMBDA em :
                 LET zs == {j \in 3..Len(em) : em[j] = 0}
                     z  == CHOOSE j \in zs : \A i \in zs : j <= i
                 IN  IF em[1] = 0 /\ em[2] = padding.type /\ zs # {}
                        /\ z - 3 >= padding.minpad
                     THEN Ok(Bytes(SubSeq(em, z + 1, Len(em))))
                     ELSE Raise("ValueError"))

\* The file system as add_to_params saw it when it validated the value.
VARIABLE fs_at_validation

\* open and read answered from the file as it was when the value was
\* validated
open_read_at_validation(fs, path) ==
    LET st == Stat(fs_at_validation, path) IN
    CASE st.kind = "missing" -> Raise("FileNotFoundError")
      [] st.kind = "dir"     -> Raise("IsADirectoryError")
      [] ~st.readable        -> Raise("PermissionError")
      [] OTHER               -> Ok(st.data)

\* open(path, 'rb') followed by read()
open_read(fs, path) ==
    LET st == Stat(fs, path) IN
    CASE st.kind = "missing" -> Raise("FileNotFoundError")
      [] st.kind = "dir"     -> Raise("IsADirectoryError")
      [] ~st.readable        -> Raise("PermissionError")
      [] OTHER               -> Ok(st.data)

\* load_pem_private_key(pk_bytes, None, backend)
load_pem_private_key(data, password) ==
    IF data.fmt # "pem" THEN Raise("ValueError")
    ELSE IF data.encrypted /\ password = None THEN Raise("TypeError")
    ELSE Ok(data.key)

\* value.decode('utf-8')
decode_utf8(value) ==
    IF value.t # "bytes" THEN Raise("AttributeError") ELSE utf8_decode(value.v)

\* ------------------------------------------------------------------------
\* Nested mappings: jmespath.search and botocore's set_value_from_jmespath
\* for dotted expressions (sequences of keys).
\* ------------------------------------------------------------------------
RECURSIVE search(_, _)
search(expression, data) ==
    IF expression = <<>> THEN data
    ELSE IF data.t = "obj" /\ Head(expression) \in DOMAIN data.v
         THEN search(Tail(expression), data.v[Head(expression)])
    ELSE None

\* an assignment that replaces the mapping by one with the single key
Put_replacing(source, key, value) == Obj([k \in {key} |-> value])

Put(source, key, value) ==
    Obj([k \in DOMAIN source.v \cup {key} |-> IF k = key THEN value ELSE source.v[k]])

\* A key that is missing on the way gets an empty mapping; the last key is
\* set.  Returns the mapping as it is afterwards.
RECURSIVE set_value_from_jmespath(_, _, _)
set_value_from_jmespath(source, expression, value) ==
    IF source.t # "obj" THEN Raise("TypeError")
    ELSE IF Len(expression) = 1 THEN Ok(Put(source, expression[1], value))
    ELSE LET key   == Head(expression)
             child == IF key \in DOMAIN source.v THEN source.v[key] ELSE Obj(EmptyDict)
             r     == set_value_from_jmespath(child, Tail(expression), value)
         IN  IF r.ok THEN Ok(Put(source, key, r.v)) ELSE r

CiphertextPath == <<"accessDetails", "passwordData", "ciphertext">>

PasswordPath == <<"accessDetails", "password">>

\* ------------------------------------------------------------------------
\* The host: service models, the event registry, the tables.
\* ------------------------------------------------------------------------
Operations ==
    { [cli |-> "get-instance-access-details", name |-> "GetInstanceAccessDetails",
       service |-> "lightsail", service_id |-> "Lightsail"],
      [cli |-> "get-instance", name |-> "GetInstance",
       service |-> "lightsail", service_id |-> "Lightsail"],
      [cli |-> "get-password-data", name |-> "GetPasswordData",
       service |-> "ec2", service_id |-> "EC2"] }

NoOperation == [cli |-> "none", name |-> "none", service |-> "none", service_id |-> "none"]

Services == {op.service : op \in Operations}

\* ServiceId.hyphenize(): lower case, spaces to hyphens
hyphenize(service_id) ==
    CASE service_id = "Lightsail" -> "lightsail"
      [] service_id = "EC2"       -> "ec2"
      [] OTHER                    -> service_id

\* The arguments the service model gives an operation.
ModelArguments(op) ==
    IF op.service = "lightsail" THEN {"instance-name"} ELSE {"instance-id", "priv-launch-key"}

IsPrefix(a, b) == Len(a) <= Len(b) /\ SubSeq(b, 1, Len(a)) = a

\* register(event, handler): appended to the registry
register(registry, event, handler) ==
    Append(registry, [event |-> event, handler |-> handler])

\* The handlers an emitted event reaches: those registered for the event or
\* for a prefix of it, in registration order.
Matching(registry, event) ==
    SelectSeq(registry, LAMBDA r : IsPrefix(r.event, event))

TableSet(table, key, value) ==
    [k \in DOMAIN table \cup {key} |-> IF k = key THEN value ELSE table[k]]

Session == "session"

PushContainerImage(session) == [cls |-> "PushContainerImage", session |-> session]

ServiceOperation(session) == [cls |-> "ServiceOperation", session |-> session]

CLIArgument(name) ==
    [cls |-> "CLIArgument", name |-> name, required |-> TRUE, key_path |-> None]

\* PrivateKeyArgument.__init__
PrivateKeyArgument(session, operation_model, name) ==
    [cls |-> "PrivateKeyArgument", name |-> name, required |-> FALSE, key_path |-> None]

\* initialize registering the argument handler for the whole service
initialize_every_operation(registry) ==
    register(
        register(registry, <<"building-command-table", "lightsail">>, "inject_commands"),
        <<"building-argument-table", "lightsail">>,
        "giad_add_private_key")

\* initialize(cli): the two registrations
initialize(registry) ==
    register(
        register(registry, <<"building-command-table", "lightsail">>, "inject_commands"),
        <<"building-argument-table", "lightsail", "get-instance-access-details">>,
        "giad_add_private_key")

\* inject_commands binding a new table instead of adding to the one given
inject_commands_new_table(command_table, session) ==
    TableSet(EmptyDict, "push-container-image", PushContainerImage(session))

inject_commands(command_table, session) ==
    TableSet(command_table, "push-container-image", PushContainerImage(session))

giad_add_private_key(argument_table, operation_model, session) ==
    TableSet(argument_table, "private-key",
             PrivateKeyArgument(session, operation_model, "private-key"))

\* ------------------------------------------------------------------------
\* PrivateKeyArgument
\* ------------------------------------------------------------------------
NoError == [type |-> "none", msg |-> "none"]

ValidationError ==
    [type |-> "ValueError",
     msg  |-> "private-key should be a path to the local SSH private key file of the keypair used to create the instance."]

DecryptionError ==
    [type |-> "ValueError",
     msg  |-> "Unable to decrypt password ciphertext using provided private key file."]

\* the event of every operation of the service
AfterCallEvent_of_service(operation_model) ==
    <<"after-call", hyphenize(operation_model.service_id)>>

AfterCallEvent(operation_model) ==
    <<"after-call", hyphenize(operation_model.service_id), operation_model.name>>

\* add_to_params without the os.path.isfile check
add_to_params_unchecked(self, value, fs, environ, operation_model, registry) ==
    IF Truthy(value)
    THEN [self     |-> [self EXCEPT !.key_path =
                           Str(expanduser(expandvars(value.v, environ), environ))],
          registry |-> register(registry, AfterCallEvent(operation_model),
                                "_decrypt_password_data"),
          exc      |-> NoError]
    ELSE [self |-> self, registry |-> registry, exc |-> NoError]

\* add_to_params registering the handler whether or not a value is given
add_to_params_always_registers(self, value, fs, environ, operation_model, registry) ==
    LET registered == register(registry, AfterCallEvent(operation_model),
                               "_decrypt_password_data")
    IN
    IF Truthy(value)
    THEN LET path == expanduser(expandvars(value.v, environ), environ) IN
         IF isfile(fs, path)
         THEN [self     |-> [self EXCEPT !.key_path = Str(path)],
               registry |-> registered, exc |-> NoError]
         ELSE [self |-> self, registry |-> registered, exc |-> ValidationError]
    ELSE [self |-> self, registry |-> registered, exc |-> NoError]

\* add_to_params expanding the user home before the environment variables
add_to_params_user_first(self, value, fs, environ, operation_model, registry) ==
    IF Truthy(value)
    THEN LET path == expandvars(expanduser(value.v, environ), environ) IN
         IF isfile(fs, path)
         THEN [self     |-> [self EXCEPT !.key_path = Str(path)],
               registry |-> register(registry, AfterCallEvent(operation_model),
                                     "_decrypt_password_data"),
               exc      |-> NoError]
         ELSE [self |-> self, registry |-> registry, exc |-> ValidationError]
    ELSE [self |-> self, registry |-> registry, exc |-> NoError]

\* add_to_params(parameters, value): what becomes of the argument object and
\* of the registry, and the exception raised (NoError: none).
add_to_params(self, value, fs, environ, operation_model, registry) ==
    IF Truthy(value)
    THEN LET path == expanduser(expandvars(value.v, environ), environ) IN
         IF isfile(fs, path)
         THEN [self     |-> [self EXCEPT !.key_path = Str(path)],
               registry |-> register(registry, AfterCallEvent(operation_model),
                                     "_decrypt_password_data"),
               exc      |-> NoError]
         ELSE [self |-> self, registry |-> registry, exc |-> ValidationError]
    ELSE [self |-> self, registry |-> registry, exc |-> NoError]

\* The classes "except Exception" catches, among those the steps raise.
ExceptionClasses ==
    {"FileNotFoundError", "IsADirectoryError", "PermissionError", "ValueError",
     "TypeError", "AttributeError", "binascii.Error", "UnicodeDecodeError"}

\* "except ValueError" in place of "except Exception"
except_ValueError(exc) == exc \in {"ValueError", "binascii.Error", "UnicodeDecodeError"}

except_Exception(exc) == exc \in ExceptionClasses

\* The key file as the handler uses it: how often it was opened, read and
\* closed.  A handle is open while there are more opens than closes.
NoFile == [opens |-> 0, reads |-> 0, closes |-> 0]

\* after open(self._key_path, 'rb') and pk_file.read()
OpenedAndRead == [opens |-> 1, reads |-> 1, closes |-> 0]

Sum(a, b) ==
    [opens |-> a.opens + b.opens, reads |-> a.reads + b.reads,
     closes |-> a.closes + b.closes]

\* a handle that is closed only when the block completes
with_exit_on_completion(r) ==
    IF r.exc = "none" THEN [r EXCEPT !.pk_file.closes = @ + 1] ELSE r

\* The with statement's exit: the file is closed, whether the block
\* completed or raised.
with_exit(r) == [r EXCEPT !.pk_file.closes = @ + 1]

\* the try statement's body without the base64 decoding
try_body_without_b64decode(self, parsed, value, fs) ==
    LET raised(r, f) == [parsed |-> parsed, exc |-> r.exc, wrote |-> FALSE,
                         pk_file |-> f] IN
    WithValue(open_read(fs, self.key_path.v), LAMBDA pk_bytes :
         IF ~pk_bytes.ok THEN raised(pk_bytes, NoFile) ELSE
    with_exit(
    WithValue(load_pem_private_key(pk_bytes.v, None), LAMBDA private_key :
         IF ~private_key.ok THEN raised(private_key, OpenedAndRead) ELSE
    WithValue(rsa_decrypt(private_key.v, value, PKCS1v15), LAMBDA decrypted :
         IF ~decrypted.ok THEN raised(decrypted, OpenedAndRead) ELSE
    WithValue(decode_utf8(decrypted.v), LAMBDA text :
         IF ~text.ok THEN raised(text, OpenedAndRead) ELSE
    WithValue(set_value_from_jmespath(parsed, PasswordPath, text.v), LAMBDA set :
         IF ~set.ok THEN raised(set, OpenedAndRead)
         ELSE [parsed |-> set.v, exc |-> "none", wrote |-> TRUE,
               pk_file |-> OpenedAndRead]))))))

\* the try statement's body writing the decrypted bytes into the response
\* before they are decoded
try_body_writes_before_decode(self, parsed, value, fs) ==
    LET raised(r, f) == [parsed |-> parsed, exc |-> r.exc, wrote |-> FALSE,
                         pk_file |-> f] IN
    WithValue(open_read(fs, self.key_path.v), LAMBDA pk_bytes :
         IF ~pk_bytes.ok THEN raised(pk_bytes, NoFile) ELSE
    with_exit(
    WithValue(load_pem_private_key(pk_bytes.v, None), LAMBDA private_key :
         IF ~private_key.ok THEN raised(private_key, OpenedAndRead) ELSE
    WithValue(b64decode(value), LAMBDA decoded :
         IF ~decoded.ok THEN raised(decoded, OpenedAndRead) ELSE
    WithValue(rsa_decrypt(private_key.v, decoded.v, PKCS1v15), LAMBDA decrypted :
         IF ~decrypted.ok THEN raised(decrypted, OpenedAndRead) ELSE
    WithValue(set_value_from_jmespath(parsed, PasswordPath, decrypted.v), LAMBDA raw :
         IF ~raw.ok THEN raised(raw, OpenedAndRead) ELSE
    WithValue(decode_utf8(decrypted.v), LAMBDA text :
         IF ~text.ok
         THEN [parsed |-> raw.v, exc |-> text.exc, wrote |-> FALSE,
               pk_file |-> OpenedAndRead] ELSE
    WithValue(set_value_from_jmespath(raw.v, PasswordPath, text.v), LAMBDA set :
         IF ~set.ok THEN raised(set, OpenedAndRead)
         ELSE [parsed |-> set.v, exc |-> "none", wrote |-> TRUE,
               pk_file |-> OpenedAndRead]))))))))

\* The body of the try statement: the response as the body leaves it, the
\* class of the exception it raises ("none": it completes), whether
\* accessDetails.password was written, and what was done to the key file.
\* The with block is entered once the file is open, and every statement
\* after the open is inside it.
try_body(self, parsed, value, fs) ==
    LET raised(r, f) == [parsed |-> parsed, exc |-> r.exc, wrote |-> FALSE,
                         pk_file |-> f] IN
    WithValue(open_read(fs, self.key_path.v), LAMBDA pk_bytes :
         IF ~pk_bytes.ok THEN raised(pk_bytes, NoFile) ELSE
    with_exit(
    WithValue(load_pem_private_key(pk_bytes.v, None), LAMBDA private_key :
         IF ~private_key.ok THEN raised(private_key, OpenedAndRead) ELSE
    WithValue(b64decode(value), LAMBDA decoded :
         IF ~decoded.ok THEN raised(decoded, OpenedAndRead) ELSE
    WithValue(rsa_decrypt(private_key.v, decoded.v, PKCS1v15), LAMBDA decrypted :
         IF ~decrypted.ok THEN raised(decrypted, OpenedAndRead) ELSE
    WithValue(decode_utf8(decrypted.v), LAMBDA text :
         IF ~text.ok THEN raised(text, OpenedAndRead) ELSE
    WithValue(set_value_from_jmespath(parsed, PasswordPath, text.v), LAMBDA set :
         IF ~set.ok THEN raised(set, OpenedAndRead)
         ELSE [parsed |-> set.v, exc |-> "none", wrote |-> TRUE,
               pk_file |-> OpenedAndRead])))))))

\* the handler without "if not value: return"
decrypt_password_data_without_empty_check(self, parsed, fs) ==
    IF self.key_path = None
    THEN [parsed |-> parsed, exc |-> NoError, wrote |-> FALSE, pk_file |-> NoFile]
    ELSE WithValue(try_body(self, parsed, search(CiphertextPath, parsed), fs),
         LAMBDA r :
         IF r.exc = "none"
         THEN [parsed |-> r.parsed, exc |-> NoError, wrote |-> r.wrote,
               pk_file |-> r.pk_file]
         ELSE [parsed |-> r.parsed, exc |-> DecryptionError, wrote |-> r.wrote,
               pk_file |-> r.pk_file])

\* the handler reading the key file before it looks at the ciphertext
decrypt_password_data_reads_first(self, parsed, fs) ==
    LET unchanged == [parsed |-> parsed, exc |-> NoError, wrote |-> FALSE,
                      pk_file |-> NoFile]
        value     == search(CiphertextPath, parsed)
    IN
    IF self.key_path = None THEN unchanged
    ELSE WithValue(open_read(fs, self.key_path.v), LAMBDA pk_bytes :
         IF ~pk_bytes.ok
         THEN [unchanged EXCEPT !.exc = DecryptionError]
         ELSE IF ~Truthy(value)
         THEN with_exit([unchanged EXCEPT !.pk_file = OpenedAndRead])
         ELSE WithValue(try_body(self, parsed, value, fs), LAMBDA r :
              [parsed |-> r.parsed,
               exc |-> IF r.exc = "none" THEN NoError ELSE DecryptionError,
               wrote |-> r.wrote, pk_file |-> r.pk_file]))

\* _decrypt_password_data(parsed): the response as the handler leaves it,
\* the exception that leaves the handler (NoError: none), whether
\* accessDetails.password was written, and what was done to the key file.
_decrypt_password_data(self, parsed, fs) ==
    LET unchanged == [parsed |-> parsed, exc |-> NoError, wrote |-> FALSE,
                      pk_file |-> NoFile]
        value     == search(CiphertextPath, parsed)
    IN
    IF self.key_path = None THEN unchanged
    ELSE IF ~Truthy(value) THEN unchanged
    ELSE WithValue(try_body(self, parsed, value, fs), LAMBDA r :
         IF r.exc = "none"
         THEN [parsed |-> r.parsed, exc |-> NoError, wrote |-> r.wrote,
               pk_file |-> r.pk_file]
         ELSE IF except_Exception(r.exc)
         THEN [parsed |-> r.parsed, exc |-> DecryptionError, wrote |-> r.wrote,
               pk_file |-> r.pk_file]
         ELSE [parsed |-> r.parsed, exc |-> [type |-> r.exc, msg |-> "none"],
               wrote |-> r.wrote, pk_file |-> r.pk_file])

\* ------------------------------------------------------------------------
\* The inputs of an invocation: environment, file system, the value given
\* to --private-key, and the response of the service.
\* ------------------------------------------------------------------------
MaxPlainLen == 2

MaxFsChanges == 1

HomeDir == <<"/", "h">>

HomeKey == <<"/", "h", "/", "k">>

RootKey == <<"/", "root", "/", "k">>

EnvValue(var) ==
    CASE var = "$HOME" -> HomeDir
      [] var = "$D"    -> <<"/", "h", "/">>
      [] var = "$T"    -> <<"~">>
      [] OTHER         -> <<>>

Environs ==
    { [var \in {"$HOME", "$D", "$T", "$E"} |-> EnvValue(var)],
      [var \in {"$D", "$T", "$E"} |-> EnvValue(var)] }

KeyFileStates ==
    { NoEntry, Directory,
      File(Pem(KeyPairs[1], FALSE), TRUE), File(Pem(KeyPairs[2], FALSE), TRUE),
      File(Pem(KeyPairs[1], TRUE), TRUE), File(Pem(KeyPairs[1], FALSE), FALSE),
      File(Pem(EcKey, FALSE), TRUE), File(Junk, TRUE) }

\* The file systems an invocation starts in.
FileSystems ==
    { [q \in {HomeDir, HomeKey, RootKey} |->
          IF q = HomeDir THEN Directory
          ELSE IF q = HomeKey THEN a
          ELSE File(Pem(KeyPairs[2], FALSE), TRUE)] :
      a \in {NoEntry, Directory, File(Pem(KeyPairs[1], FALSE), TRUE), File(Junk, TRUE)} }

\* What the command line may hold for --private-key (None: not given).
KeyArguments ==
    { None, Str(<<>>),
      Str(HomeKey), Str(<<"~", "/", "k">>), Str(<<"$D", "/", "k">>),
      Str(<<"$T", "/", "k">>), Str(<<"~", "root", "/", "k">>),
      Str(<<"~", "u", "/", "k">>), Str(<<"$U", "/", "k">>),
      Str(HomeDir), Str(<<"$E">>) }

\* the paths the key arguments expand to
KeyPaths ==
    UNION { {expanduser(expandvars(a.v, e), e) : e \in Environs} :
            a \in {x \in KeyArguments : x.t = "str"} }

PlainChars == {"a", "w"}

PadBytes == {1, 7}

\* the longest message a key encrypts
Capacity(key) == key_size(key) - 3 - PKCS1v15.minpad

Plaintexts == UNION {[1..l -> PlainChars] : l \in 0..MaxPlainLen}

\* the messages the service encrypts: passwords, and bytes that are no UTF-8
Messages == {utf8_encode(p) : p \in Plaintexts} \cup {<<5>>, <<7, 0>>}

Encryptions(key) ==
    UNION { { [key |-> key, m |-> m, ps |-> ps,
               ciphertext |-> Str(b64encode(rsa_encrypt(key, m, ps)))] :
              ps \in [1..(key_size(key) - 3 - Len(m)) -> PadBytes] } :
            m \in {x \in Messages : Len(x) <= Capacity(key)} }

AllEncryptions == Encryptions(KeyPairs[1]) \cup Encryptions(KeyPairs[2])

\* ciphertext fields that are no encryption of anything
OtherCiphertexts ==
    { None, Str(<<>>), Obj(EmptyDict), Obj([x |-> None]),
      Str(<<"A">>), Str(<<"w">>), Str(<<"A", "B", "C">>),
      Str(<<"D", "D", "D", "D", "D", "D", "D", "D", "D">>) }

AccessDetails(ciphertext) ==
    [username     |-> Str(<<"a">>),
     passwordData |-> Obj([ciphertext |-> ciphertext, keyPairName |-> Str(<<"k">>)])]

Response(ciphertext) == Obj([accessDetails |-> Obj(AccessDetails(ciphertext))])

\* the same with a password the service already filled in
ResponseWithPassword(ciphertext) ==
    Obj([accessDetails |->
            Put(Obj(AccessDetails(ciphertext)), "password", Str(<<"d">>))])

\* what the other operations answer
OtherResponses ==
    { Obj(EmptyDict),
      Obj([instance |-> Obj([name |-> Str(<<"a">>)])]),
      Response(Str(<<"A", "B", "C">>)) }

Responses ==
    {Response(c.ciphertext) : c \in AllEncryptions}
    \cup {Response(c) : c \in OtherCiphertexts}
    \cup {ResponseWithPassword(c) :
             c \in {None, Str(<<>>), Str(<<"A">>)}
                   \cup {e.ciphertext : e \in {x \in AllEncryptions : x.m = <<0>>}}}
    \cup { Obj(EmptyDict), Obj([accessDetails |-> None]),
           Obj([accessDetails |-> Obj([username |-> Str(<<"a">>)])]),
           Obj([accessDetails |-> Obj([passwordData |-> None])]),
           Obj([accessDetails |-> Obj([passwordData |->
                                          Obj([keyPairName |-> Str(<<"k">>)])])]) }
    \cup OtherResponses

\* ------------------------------------------------------------------------
\* One invocation of the command line.
\* ------------------------------------------------------------------------
VARIABLES
    pc,              \* where the host is in the invocation
    environ,         \* os.environ
    fs,              \* the file system
    registry,        \* the session's event registry
    command_table,   \* the command table of the chosen service
    argument_table,  \* the argument table of the chosen operation
    operation,       \* the operation model of the chosen operation
    given,           \* the value --private-key was given (None: not given)
    checked,         \* the path os.path.isfile accepted in add_to_params
    requests,        \* requests sent
    received,        \* the response as the service sent it
    parsed,          \* the parsed response
    entered,         \* the response as it was handed to the decryption handler
    wrote,           \* the handler has written accessDetails.password
    error,           \* the exception that ended the invocation
    fs_changes,      \* changes made to the file system during the invocation
    pk_file          \* the handler's opens, reads and closes of the key file

vars == <<pc, environ, fs, registry, command_table, argument_table, operation,
          given, checked, requests, received, parsed, entered, wrote, error,
          fs_changes, fs_at_validation, pk_file>>

EmptyTable == <<>>

Init ==
    /\ pc = "boot"
    /\ environ \in Environs
    /\ fs \in FileSystems
    /\ registry = <<>>
    /\ command_table = EmptyTable
    /\ argument_table = EmptyTable
    /\ operation = NoOperation
    /\ given = None
    /\ checked = None
    /\ requests = 0
    /\ received = None
    /\ parsed = None
    /\ entered = None
    /\ wrote = FALSE
    /\ error = NoError
    /\ fs_changes = 0
    /\ fs_at_validation = None
    /\ pk_file = NoFile

\* The customization is loaded: initialize(cli).
Initialize ==
    /\ pc = "boot"
    /\ registry' = initialize(registry)
    /\ pc' = "ready"
    /\ UNCHANGED <<environ, fs, command_table, argument_table, operation, given,
                   checked, requests, received, parsed, entered, wrote, error, fs_changes,
                   fs_at_validation, pk_file>>

RECURSIVE EmitCommandTable(_, _)
EmitCommandTable(hs, table) ==
    IF hs = <<>> THEN table
    ELSE EmitCommandTable(Tail(hs),
             IF Head(hs).handler = "inject_commands"
             THEN inject_commands(table, Session) ELSE table)

\* The host builds the command table of a service from the service model
\* and emits building-command-table.<service>.
BuildCommandTable(service) ==
    /\ pc = "ready"
    /\ command_table' =
          EmitCommandTable(
              Matching(registry, <<"building-command-table", service>>),
              [c \in {op.cli : op \in {o \in Operations : o.service = service}}
                  |-> ServiceOperation(Session)])
    /\ pc' = "commands"
    /\ UNCHANGED <<environ, fs, registry, argument_table, operation, given,
                   checked, requests, received, parsed, entered, wrote, error, fs_changes,
                   fs_at_validation, pk_file>>

RECURSIVE EmitArgumentTable(_, _, _)
EmitArgumentTable(hs, table, operation_model) ==
    IF hs = <<>> THEN table
    ELSE EmitArgumentTable(Tail(hs),
             IF Head(hs).handler = "giad_add_private_key"
             THEN giad_add_private_key(table, operation_model, Session) ELSE table,
             operation_model)

\* The host builds the argument table of the chosen operation and emits
\* building-argument-table.<service>.<operation>.
BuildArgumentTable(op) ==
    /\ pc = "commands"
    /\ op.cli \in DOMAIN command_table
    /\ command_table[op.cli].cls = "ServiceOperation"
    /\ operation' = op
    /\ argument_table' =
          EmitArgumentTable(
              Matching(registry, <<"building-argument-table", op.service, op.cli>>),
              [a \in ModelArguments(op) |-> CLIArgument(a)], op)
    /\ pc' = "arguments"
    /\ UNCHANGED <<environ, fs, registry, command_table, given, checked, requests, received,
                   parsed, entered, wrote, error, fs_changes,
                   fs_at_validation, pk_file>>

\* The injected command is chosen: it runs outside this flow.
RunCustomCommand ==
    /\ pc = "commands"
    /\ \E c \in DOMAIN command_table : command_table[c].cls = "PushContainerImage"
    /\ pc' = "done"
    /\ UNCHANGED <<environ, fs, registry, command_table, argument_table, operation,
                   given, checked, requests, received, parsed, entered, wrote, error, fs_changes,
                   fs_at_validation, pk_file>>

\* The host hands every argument of the table its parsed value; value is
\* what --private-key was given.
ParseArgs(value) ==
    /\ pc = "arguments"
    /\ IF "private-key" \in DOMAIN argument_table
       THEN \E r \in {add_to_params(argument_table["private-key"], value, fs,
                                     environ, operation, registry)},
               path \in {expanduser(expandvars(value.v, environ), environ)} :
                /\ argument_table' = [argument_table EXCEPT !["private-key"] = r.self]
                /\ registry' = r.registry
                /\ error' = r.exc
                /\ pc' = IF r.exc = NoError THEN "parsed" ELSE "failed"
                /\ given' = value
                /\ checked' = IF value.t = "str" /\ value.v # <<>> /\ isfile(fs, path)
                              THEN Str(path) ELSE None
                /\ fs_at_validation' = fs
       ELSE /\ value = None
            /\ pc' = "parsed"
            /\ UNCHANGED <<argument_table, registry, error, given, checked,
                           fs_at_validation>>
    /\ UNCHANGED <<environ, fs, command_table, operation, requests, received, parsed, entered,
                   wrote, fs_changes, pk_file>>

\* The request is sent and the response parsed.
SendRequest(response) ==
    /\ pc = "parsed"
    /\ operation.cli # "get-instance-access-details" => response \in OtherResponses
    /\ requests' = requests + 1
    /\ received' = response
    /\ parsed' = response
    /\ pc' = "called"
    /\ UNCHANGED <<environ, fs, registry, command_table, argument_table, operation,
                   given, checked, entered, wrote, error, fs_changes,
                   fs_at_validation, pk_file>>

\* The handlers of after-call, in order, up to the first that raises.
RECURSIVE EmitAfterCall(_, _)
EmitAfterCall(hs, state) ==
    IF hs = <<>> \/ state.exc # NoError THEN state
    ELSE EmitAfterCall(Tail(hs),
             IF Head(hs).handler = "_decrypt_password_data"
             THEN WithValue(
                      _decrypt_password_data(argument_table["private-key"],
                                             state.parsed, fs),
                      LAMBDA r : [parsed |-> r.parsed, exc |-> r.exc,
                                  wrote |-> state.wrote \/ r.wrote,
                                  entered |-> state.parsed,
                                  pk_file |-> Sum(state.pk_file, r.pk_file)])
             ELSE state)

\* The host emits after-call.<service id>.<operation name> with the response.
AfterCall ==
    /\ pc = "called"
    /\ \E r \in {EmitAfterCall(Matching(registry, AfterCallEvent(operation)),
                    [parsed |-> parsed, exc |-> NoError, wrote |-> wrote,
                     entered |-> entered, pk_file |-> pk_file])} :
           /\ parsed' = r.parsed
           /\ error' = r.exc
           /\ wrote' = r.wrote
           /\ entered' = r.entered
           /\ pk_file' = r.pk_file
           /\ pc' = IF r.exc = NoError THEN "done" ELSE "failed"
    /\ UNCHANGED <<environ, fs, registry, command_table, argument_table, operation,
                   given, checked, requests, received, fs_changes,
                   fs_at_validation>>

\* Something else changes the file the stored key path names, between
\* argument parsing and the request.
FsChange(q, st) ==
    /\ pc = "parsed"
    /\ "private-key" \in DOMAIN argument_table
    /\ argument_table["private-key"].key_path = Str(q)
    /\ fs_changes < MaxFsChanges
    /\ Resolve(q) \in DOMAIN fs
    /\ fs[Resolve(q)] # st
    /\ fs' = [fs EXCEPT ![Resolve(q)] = st]
    /\ fs_changes' = fs_changes + 1
    /\ UNCHANGED <<pc, environ, registry, command_table, argument_table, operation,
                   given, checked, requests, received, parsed, entered, wrote, error,
                   fs_at_validation, pk_file>>

Next ==
    \/ Initialize
    \/ \E service \in Services : BuildCommandTable(service)
    \/ \E op \in Operations : BuildArgumentTable(op)
    \/ RunCustomCommand
    \/ \E value \in KeyArguments : ParseArgs(value)
    \/ \E response \in Responses : SendRequest(response)
    \/ AfterCall
    \/ \E q \in KeyPaths, st \in KeyFileStates : FsChange(q, st)

Spec == Init /\ [][Next]_vars

\* ------------------------------------------------------------------------
\* inject_commands on the command tables it may be given: tables other
\* customizations have already added to, or that hold the key already.
\* ------------------------------------------------------------------------
CommandNames == {"get-instance", "get-instance-access-details", "wait",
                 "push-container-image"}

CommandTables ==
    UNION { [names -> {ServiceOperation(Session), PushContainerImage("other")}] :
            names \in SUBSET CommandNames }

InitTables ==
    /\ pc = "table"
    /\ command_table \in CommandTables
    /\ environ \in Environs
    /\ fs \in FileSystems
    /\ registry = initialize(<<>>)
    /\ argument_table = EmptyTable
    /\ operation = NoOperation
    /\ given = None
    /\ checked = None
    /\ requests = 0
    /\ received = None
    /\ parsed = None
    /\ entered = None
    /\ wrote = FALSE
    /\ error = NoError
    /\ fs_changes = 0
    /\ fs_at_validation = None
    /\ pk_file = NoFile

\* The host emits building-command-table.lightsail with the table.
InjectCommands ==
    /\ pc = "table"
    /\ command_table' =
          EmitCommandTable(
              Matching(registry, <<"building-command-table", "lightsail">>),
              command_table)
    /\ pc' = "commands"
    /\ UNCHANGED <<environ, fs, registry, argument_table, operation, given,
                   checked, requests, received, parsed, entered, wrote, error,
                   fs_changes,
                   fs_at_validation, pk_file>>

NextTables == InjectCommands

SpecTables == InitTables /\ [][NextTables]_vars

\* ------------------------------------------------------------------------
\* Views of the state
\* ------------------------------------------------------------------------
HasKeyArgument == "private-key" \in DOMAIN argument_table

\* self._key_path of the private-key argument
key_path == IF HasKeyArgument THEN argument_table["private-key"].key_path ELSE None

HandlerRegistered ==
    \E i \in 1..Len(registry) : registry[i].handler = "_decrypt_password_data"

\* the path a value names: environment variables first, then the user home
Expanded(value) == expanduser(expandvars(value.v, environ), environ)

\* the value uses the user-home shorthand or a variable reference
UsesShorthand(value) ==
    \E i \in 1..Len(value.v) :
        value.v[i] \in {"~", "$HOME", "$D", "$T", "$E", "$U"}

ArgumentsParsed == pc \in {"parsed", "called", "done", "failed"}

\* the decryption handler has been invoked
HandlerRan == entered # None

\* the ciphertext of the response the handler was handed
EnteredCiphertext == search(CiphertextPath, entered)

\* the response without what is at the expression
RECURSIVE Remove(_, _)
Remove(data, expression) ==
    IF data.t # "obj" \/ Head(expression) \notin DOMAIN data.v THEN data
    ELSE IF Len(expression) = 1
         THEN Obj([k \in DOMAIN data.v \ {Head(expression)} |-> data.v[k]])
    ELSE Obj([k \in DOMAIN data.v |->
                 IF k = Head(expression)
                 THEN Remove(data.v[k], Tail(expression)) ELSE data.v[k]])

\* the key file as it is on disk
KeyFile == Stat(fs, key_path.v)

\* a file the handler can load an RSA private key from
UsableKeyFile(file) ==
    /\ file.kind = "file"
    /\ file.readable
    /\ file.data.fmt = "pem"
    /\ ~file.data.encrypted
    /\ file.data.key.alg = "rsa"

\* a handle of the key file is open
HandleOpen == pk_file.opens > pk_file.closes

\* ------------------------------------------------------------------------
\* Properties
\* ------------------------------------------------------------------------

\* C1: accessDetails.password has been written by the handler only if
\* add_to_params stored a key path that passed the regular-file check and the
\* response handed to the handler held a non-empty ciphertext.
C1_WrittenOnlyWithKeyAndCiphertext ==
    wrote => /\ key_path # None
             /\ checked = key_path
             /\ HandlerRan
             /\ Truthy(EnteredCiphertext)

C1_Witness == pc = "done" /\ wrote

\* C2: when the key file holds the private key and the ciphertext is the
\* base64 of the PKCS#1 v1.5 encryption of the UTF-8 bytes of p under the
\* matching public key, the handler ends without error and
\* accessDetails.password is exactly p.
C2_DecryptionYieldsPlaintext ==
    HandlerRan =>
    \A ciphertext \in {EnteredCiphertext}, file \in {Stat(fs, key_path.v)} :
    \A e \in AllEncryptions :
        (ciphertext = e.ciphertext /\ file = File(Pem(e.key, FALSE), TRUE))
        => \A p \in Plaintexts :
               e.m = utf8_encode(p)
               => /\ pc = "done"
                  /\ error = NoError
                  /\ search(PasswordPath, parsed) = Str(p)

C2_Witness ==
    /\ pc = "done"
    /\ wrote
    /\ Stat(fs, key_path.v) = File(Pem(KeyPairs[2], FALSE), TRUE)
    /\ search(PasswordPath, parsed) = Str(<<"w">>)

\* C3: a handler invoked with a non-empty ciphertext either writes the
\* password and raises nothing, or raises the generic decryption error and
\* nothing else: no other exception leaves it.
C3_OnlyGenericErrorEscapes ==
    (HandlerRan /\ Truthy(EnteredCiphertext))
    => \/ pc = "done" /\ error = NoError /\ wrote
       \/ pc = "failed" /\ error = DecryptionError /\ ~wrote

\* the ciphertext was encrypted under the other key
C3_Witness ==
    /\ pc = "failed"
    /\ error = DecryptionError
    /\ Stat(fs, key_path.v) = File(Pem(KeyPairs[2], FALSE), TRUE)
    /\ \E e \in Encryptions(KeyPairs[1]) : EnteredCiphertext = e.ciphertext

\* C4: a value whose path does not exist fails with the input-validation
\* error in add_to_params; the invocation ends there: no request is sent and
\* the decryption handler does not run.
C4_MissingPathFailsBeforeRequest ==
    ( /\ ArgumentsParsed
      /\ HasKeyArgument
      /\ Truthy(given)
      /\ fs_changes = 0
      /\ Stat(fs, Expanded(given)).kind = "missing" )
    => /\ pc = "failed"
       /\ error = ValidationError
       /\ requests = 0
       /\ received = None
       /\ ~HandlerRan

C4_Witness ==
    /\ pc = "failed"
    /\ error = ValidationError
    /\ given = Str(HomeKey)
    /\ Stat(fs, HomeKey).kind = "missing"
    /\ requests = 0

\* C5: when --private-key is not given, the key path stays unset, no
\* decryption handler is registered and the response stays as the service
\* sent it, with or without a ciphertext.
C5_NoValueNoEffect ==
    (ArgumentsParsed /\ HasKeyArgument /\ given = None)
    => /\ key_path = None
       /\ ~HandlerRegistered
       /\ ~HandlerRan
       /\ ~wrote
       /\ parsed = received
       /\ error = NoError

C5_Witness ==
    /\ pc = "done"
    /\ HasKeyArgument
    /\ given = None
    /\ \E e \in AllEncryptions : search(CiphertextPath, parsed) = e.ciphertext

\* C6: with a key file supplied and a response whose ciphertext is absent or
\* empty, the handler returns without an error and the response is as it was
\* handed to the handler.
C6_NoCiphertextNoChange ==
    (HandlerRan /\ key_path # None /\ ~Truthy(EnteredCiphertext))
    => /\ pc = "done"
       /\ error = NoError
       /\ parsed = entered
       /\ ~wrote

C6_Witness ==
    /\ pc = "done"
    /\ HandlerRan
    /\ key_path # None
    /\ entered = Obj([accessDetails |-> Obj([username |-> Str(<<"a">>)])])

\* C7 as stated: every string value whose expanded path is no regular file
\* makes add_to_params fail with the input-validation error, the key path
\* unset and no handler registered.
C7_EveryStringValue ==
    ( /\ ArgumentsParsed
      /\ HasKeyArgument
      /\ given.t = "str"
      /\ fs_changes = 0
      /\ ~isfile(fs, Expanded(given)) )
    => /\ pc = "failed"
       /\ error = ValidationError
       /\ key_path = None
       /\ ~HandlerRegistered

\* C7 amended: every non-empty string value whose expanded path is no
\* regular file makes add_to_params fail with the input-validation error,
\* the key path unset and no handler registered.
C7_NonEmptyStringValue ==
    ( /\ ArgumentsParsed
      /\ HasKeyArgument
      /\ given.t = "str"
      /\ given.v # <<>>
      /\ fs_changes = 0
      /\ ~isfile(fs, Expanded(given)) )
    => /\ pc = "failed"
       /\ error = ValidationError
       /\ key_path = None
       /\ ~HandlerRegistered

\* the value names a directory
C7_Witness ==
    /\ pc = "failed"
    /\ error = ValidationError
    /\ given = Str(HomeDir)
    /\ Stat(fs, HomeDir).kind = "dir"
    /\ key_path = None

\* C8: a value with the user-home shorthand or variable references, with a
\* regular file at its expansion (variables first, then the user home), is
\* accepted: no input-validation error, the handler registered, and the
\* stored path, which is the one the handler opens, is the expansion and
\* not the value.
C8_ExpandedPathStored ==
    ( /\ ArgumentsParsed
      /\ HasKeyArgument
      /\ Truthy(given)
      /\ UsesShorthand(given)
      /\ checked = Str(Expanded(given)) )
    => /\ error # ValidationError
       /\ HandlerRegistered
       /\ key_path = Str(Expanded(given))
       /\ key_path # given
       /\ wrote => Stat(fs, Expanded(given)).kind = "file"

\* the variable holds "~": expanded first, then the user home
C8_Witness ==
    /\ pc = "done"
    /\ wrote
    /\ given = Str(<<"$T", "/", "k">>)
    /\ key_path = Str(HomeKey)

\* C9: inject_commands, on every command table, sets the entry
\* push-container-image to a PushContainerImage built from the session and
\* changes no other entry and nothing outside the table.
C9_InjectCommandsAddsOneEntry ==
    [][pc = "table" =>
         /\ DOMAIN command_table' = DOMAIN command_table \cup {"push-container-image"}
         /\ command_table'["push-container-image"] = PushContainerImage(Session)
         /\ \A c \in DOMAIN command_table \ {"push-container-image"} :
                command_table'[c] = command_table[c]
         /\ UNCHANGED <<environ, fs, registry, argument_table, operation, given,
                        checked, requests, received, parsed, entered, wrote, error,
                        fs_changes,
                   fs_at_validation, pk_file>>]_vars

C9_Witness ==
    /\ pc = "commands"
    /\ DOMAIN command_table = {"get-instance", "wait", "push-container-image"}
    /\ command_table["wait"] = PushContainerImage("other")
    /\ command_table["push-container-image"] = PushContainerImage(Session)

\* C10: the argument table of get-instance-access-details gets exactly one
\* more argument, private-key, optional and with its key path unset, its
\* other arguments as the service model gives them; the argument table of
\* every other operation is as the service model gives it.
C10_PrivateKeyArgumentAddedToOneOperation ==
    pc = "arguments" =>
        /\ \A a \in ModelArguments(operation) :
               a \in DOMAIN argument_table /\ argument_table[a] = CLIArgument(a)
        /\ IF operation.service = "lightsail"
              /\ operation.cli = "get-instance-access-details"
           THEN /\ DOMAIN argument_table =
                       ModelArguments(operation) \cup {"private-key"}
                /\ argument_table["private-key"].cls = "PrivateKeyArgument"
                /\ argument_table["private-key"].name = "private-key"
                /\ argument_table["private-key"].required = FALSE
                /\ argument_table["private-key"].key_path = None
           ELSE DOMAIN argument_table = ModelArguments(operation)

C10_Witness ==
    /\ pc = "arguments"
    /\ operation.cli = "get-instance-access-details"
    /\ "private-key" \in DOMAIN argument_table
    /\ "instance-name" \in DOMAIN argument_table

\* C11: whenever the handler ends with the generic decryption error, the
\* response is exactly as it was handed to the handler: accessDetails.password
\* is neither created nor changed.
C11_FailedDecryptionLeavesResponse ==
    (HandlerRan /\ error = DecryptionError)
    => /\ parsed = entered
       /\ search(PasswordPath, parsed) = search(PasswordPath, entered)
       /\ ~wrote

\* the ciphertext decrypts under the key of the file, to bytes that are no
\* UTF-8: the last step before the write fails
C11_Witness ==
    /\ pc = "failed"
    /\ error = DecryptionError
    /\ parsed = entered
    /\ \E e \in AllEncryptions :
           /\ e.m = <<5>>
           /\ EnteredCiphertext = e.ciphertext
           /\ Stat(fs, key_path.v) = File(Pem(e.key, FALSE), TRUE)

\* C12: a handler run that writes the password changes nothing but
\* accessDetails.password: the rest of the response, the ciphertext with it,
\* is as it was handed to the handler, and the handler run again on the
\* response it left yields that same response.
C12_OnlyPasswordChanges ==
    (HandlerRan /\ pc = "done" /\ wrote)
    => /\ Remove(parsed, PasswordPath) = Remove(entered, PasswordPath)
       /\ search(CiphertextPath, parsed) = search(CiphertextPath, entered)
       /\ search(PasswordPath, parsed).t = "str"
       /\ \A again \in {_decrypt_password_data(argument_table["private-key"],
                                                parsed, fs)} :
              /\ again.exc = NoError
              /\ again.wrote
              /\ again.parsed = parsed

\* the response came with a password, which the handler replaced
C12_Witness ==
    /\ pc = "done"
    /\ wrote
    /\ search(PasswordPath, entered) = Str(<<"d">>)
    /\ search(PasswordPath, parsed) = Str(<<"a">>)
    /\ search(<<"accessDetails", "username">>, parsed) = Str(<<"a">>)

\* C13: a handler that finds a non-empty ciphertext reads the key file then,
\* once, and acts on the file as it is at call time, whatever it was when
\* the value was validated: a file that is missing or no usable key gives
\* the generic decryption error, after the request was sent and not the
\* input-validation error; a file that holds the matching key gives the
\* password.
C13_KeyFileReadAtCallTime ==
    (HandlerRan /\ key_path # None /\ Truthy(EnteredCiphertext))
    => \A file \in {KeyFile}, ciphertext \in {EnteredCiphertext} :
       /\ requests = 1
       /\ received # None
       /\ error # ValidationError
       /\ pk_file.reads = (IF file.kind = "file" /\ file.readable THEN 1 ELSE 0)
       /\ ~UsableKeyFile(file) => (pc = "failed" /\ error = DecryptionError)
       /\ \A e \in AllEncryptions :
              ( /\ ciphertext = e.ciphertext
                /\ file = File(Pem(e.key, FALSE), TRUE)
                /\ utf8_decode(e.m).ok )
              => (pc = "done" /\ search(PasswordPath, parsed) = utf8_decode(e.m).v)

\* the matching key was there when the value was validated and is gone
\* when the handler runs
C13_Witness ==
    /\ pc = "failed"
    /\ error = DecryptionError
    /\ requests = 1
    /\ fs_changes = 1
    /\ KeyFile.kind = "missing"
    /\ \E e \in AllEncryptions :
           /\ EnteredCiphertext = e.ciphertext
           /\ utf8_decode(e.m).ok
           /\ Stat(fs_at_validation, key_path.v) = File(Pem(e.key, FALSE), TRUE)

\* C14: in every state the handler is registered only if the key path is
\* set, to the path that passed the regular-file check; a key path that is
\* set stays as it is; and whenever the handler has been invoked the key
\* path is set.
C14_RegisteredOnlyWithCheckedKeyPath ==
    /\ [](HandlerRegistered => (key_path # None /\ checked = key_path))
    /\ [](HandlerRan => (key_path # None /\ HandlerRegistered))
    /\ [][key_path # None => key_path' = key_path]_vars

\* the file was replaced by a directory after validation: the key path stays
C14_Witness ==
    /\ HandlerRegistered
    /\ HandlerRan
    /\ key_path = Str(HomeKey)
    /\ checked = key_path
    /\ fs_changes = 1
    /\ KeyFile.kind = "dir"

\* C15: the handler is registered under
\* after-call.lightsail.GetInstanceAccessDetails and nothing else; it has
\* run only once the request of get-instance-access-details was sent and
\* its response parsed, on that response; and a decryption error is only
\* there after the request.
C15_HandlerRunsAfterItsOperationsCall ==
    /\ \A i \in 1..Len(registry) :
           registry[i].handler = "_decrypt_password_data"
           => registry[i].event = <<"after-call", "lightsail", "GetInstanceAccessDetails">>
    /\ HandlerRan
       => /\ pc \in {"done", "failed"}
          /\ requests = 1
          /\ operation.service = "lightsail"
          /\ operation.cli = "get-instance-access-details"
          /\ entered = received
    /\ error = DecryptionError => (requests = 1 /\ received # None /\ HandlerRan)
    /\ (HandlerRegistered /\ operation.cli # "get-instance-access-details")
       => ~HandlerRan

C15_Witness ==
    /\ pc = "failed"
    /\ error = DecryptionError
    /\ requests = 1
    /\ operation.name = "GetInstanceAccessDetails"
    /\ entered = received
    /\ \E i \in 1..Len(registry) :
           registry[i] = [event |-> <<"after-call", "lightsail", "GetInstanceAccessDetails">>,
                          handler |-> "_decrypt_password_data"]

\* C16: in every state, all of them outside the handler, no handle of the
\* key file is open: every handle the handler opened was closed when it
\* ended, whether it wrote the password, returned early or raised; and
\* without a handler run the file was never opened.
C16_NoHandleOutsideHandler ==
    /\ ~HandleOpen
    /\ pk_file.closes = pk_file.opens
    /\ ~HandlerRan => pk_file = NoFile

\* the file was opened and the block left by an exception
C16_Witness ==
    /\ pc = "failed"
    /\ error = DecryptionError
    /\ pk_file.opens = 1
    /\ pk_file.closes = 1
    /\ KeyFile = File(Junk, TRUE)

\* C17: a handler that finds no ciphertext or an empty one returns without
\* opening or reading the key file, so it ends without error and with the
\* response as handed to it whatever the key file is at call time.
C17_NoCiphertextNoFileAccess ==
    (HandlerRan /\ key_path # None /\ ~Truthy(EnteredCiphertext))
    => /\ pk_file = NoFile
       /\ pc = "done"
       /\ error = NoError
       /\ parsed = entered
       /\ ~wrote

\* the key file was removed after validation
C17_Witness ==
    /\ pc = "done"
    /\ HandlerRan
    /\ key_path # None
    /\ ~Truthy(EnteredCiphertext)
    /\ fs_changes = 1
    /\ KeyFile.kind = "missing"
    /\ pk_file = NoFile

====
